---- MODULE Spec2Model ----
(***************************************************************************)
(* CoverCraft AI: the two-stage pipeline of src/app/page.tsx               *)
(* (handleGenerate), the CV adaptation flow of src/ai/flows/               *)
(* cv-adaptation.ts (the revision with post-processing validation) and the *)
(* cover-letter flow of src/ai/flows/cover-letter-generation.ts (the       *)
(* revision that appends the contact links).                               *)
(*                                                                         *)
(* Texts are sequences of tokens.  A token is a piece of text whose inner  *)
(* structure the code cannot tell apart from any other of its kind.  An    *)
(* optional value (string | null, a promise not yet settled, a request in  *)
(* flight) is a sequence of length 0 or 1.                                 *)
(***************************************************************************)
EXTENDS Integers, Sequences, FiniteSets, TLC

VARIABLES
    isLoading,        \* useState isLoading
    error,            \* useState error: <<>> is null, <<m>> the message m
    adaptedCvText,    \* useState adaptedCvText
    coverLetterText,  \* useState coverLetterText
    fieldErrors,      \* react-hook-form's formState.errors: field messages
    toasts,           \* toasts emitted by the most recent user action
    pc,               \* where handleGenerate stands: idle, adapting, generating
    data,             \* handleGenerate's parameter: <<>> or <<the FormData>>
    adaptReq,         \* adaptCv call on its way to the server
    adaptOutput,      \* what adaptCvPrompt gave the flow in this run
    adaptResp,        \* adaptCv's settled promise on its way to the client
    letterReq,        \* generateCoverLetter call on its way to the server
    letterOutput,     \* what the cover letter prompt gave the flow in this run
    letterResp,       \* generateCoverLetter's settled promise
    calls             \* the server functions called in this run, in order

vars == <<isLoading, error, adaptedCvText, coverLetterText, fieldErrors, toasts,
          pc, data, adaptReq, adaptOutput, adaptResp, letterReq, letterOutput,
          letterResp, calls>>

ui == <<isLoading, error, adaptedCvText, coverLetterText>>

-----------------------------------------------------------------------------
(* Bounds of the model *)

\* largest number of phrases in an adapted CV returned by the language model
MaxCvLen == 3
\* largest number of phrases in a cover letter returned by the language model
MaxLetterLen == 2
\* number of words of the token "Bulk", a long run of single-spaced words
BulkWords == 700

-----------------------------------------------------------------------------
(* Generic string operations of JavaScript, on token sequences *)

Range(s) == {s[i] : i \in 1..Len(s)}

\* all sequences over S of length at most n
RECURSIVE SeqsUpTo(_, _)
SeqsUpTo(S, n) ==
    IF n = 0 THEN {<<>>}
    ELSE LET shorter == SeqsUpTo(S, n - 1)
         IN  shorter \cup {Append(s, x) : s \in {t \in shorter : Len(t) = n - 1}, x \in S}

\* String.prototype.includes
Includes(s, sub) ==
    \E i \in 0..(Len(s) - Len(sub)) : SubSeq(s, i + 1, i + Len(sub)) = sub

\* Array.prototype.join of an array of strings
RECURSIVE Join(_, _)
Join(parts, sep) ==
    IF Len(parts) = 0 THEN <<>>
    ELSE IF Len(parts) = 1 THEN parts[1]
    ELSE parts[1] \o sep \o Join(Tail(parts), sep)

\* String.prototype.split with a one-token string separator
RECURSIVE Split(_, _)
Split(s, sep) ==
    IF \E i \in 1..Len(s) : s[i] = sep
    THEN LET i == CHOOSE k \in 1..Len(s) :
                      s[k] = sep /\ \A j \in 1..(k - 1) : s[j] # sep
         IN  <<SubSeq(s, 1, i - 1)>> \o Split(SubSeq(s, i + 1, Len(s)), sep)
    ELSE <<s>>

-----------------------------------------------------------------------------
(* Promises and model outcomes *)

\* a promise that resolved with the text v
Resolved(v) == [ok |-> TRUE, value |-> v]
\* a promise that rejected with an Error whose message is m
Rejected(m) == [ok |-> FALSE, value |-> m]

\* the prompt resolved with an output object carrying the text t
Output(t) == [kind |-> "output", text |-> t]
\* the prompt resolved with a null output
NullOutput == [kind |-> "null", text |-> <<>>]
\* the prompt call rejected with an Error whose message is m
ModelReject(m) == [kind |-> "reject", text |-> m]

\* messages of the provider's rejections; <<>> is a rejection without message
ModelErrors == {<<>>, <<"fetch failed">>}

-----------------------------------------------------------------------------
(* CV adaptation flow: src/ai/flows/cv-adaptation.ts, lines 152-188 *)

\* The pieces an adapted CV of the model is put together from: a bracketed
\* placeholder, the brackets alone, a whitespace character, the three section
\* headers, and "Bulk", a run of BulkWords words separated by single spaces.
CvPhrases ==
    { <<"[", "Your", " ", "Website", "]">>,
      <<"[">>, <<"]">>, <<" ">>,
      <<"Contact", " ", "Information">>,
      <<"Work", " ", "Experience">>,
      <<"Skills">>,
      <<"Bulk">> }

\* the adapted CVs the model can return: up to MaxCvLen phrases, concatenated
CvTexts == {Join(ps, <<>>) : ps \in SeqsUpTo(CvPhrases, MaxCvLen)}

\* what the language model can do on an adaptation call
AdaptOutcomes ==
    {Output(t) : t \in CvTexts} \cup {NullOutput} \cup {ModelReject(m) : m \in ModelErrors}

\* the token is whitespace
IsWs(tok) == tok = " "

\* number of whitespace runs inside the token (it starts and ends with a word)
WsInside(tok) == IF tok = "Bulk" THEN BulkWords - 1 ELSE 0

\* number of matches of /\s+/ in t from position i on; prevWs: t[i-1] is whitespace
RECURSIVE WsMatches(_, _, _)
WsMatches(t, i, prevWs) ==
    IF i > Len(t) THEN 0
    ELSE IF IsWs(t[i])
         THEN (IF prevWs THEN 0 ELSE 1) + WsMatches(t, i + 1, TRUE)
         ELSE WsInside(t[i]) + WsMatches(t, i + 1, FALSE)

\* mutant of SplitLength: the separators counted, not the pieces
SplitLengthSeparators(t) == WsMatches(t, 1, FALSE)

\* t.split(/\s+/).length: one piece more than there are separators
SplitLength(t) == WsMatches(t, 1, FALSE) + 1

\* index of the first "]" of t at or after i, 0 when there is none
RECURSIVE FirstClose(_, _)
FirstClose(t, i) ==
    IF i > Len(t) THEN 0
    ELSE IF t[i] = "]" THEN i
    ELSE FirstClose(t, i + 1)

\* /\[[^\]]+\]/ matches at position i: "[", one or more characters other
\* than "]" (every token but "]" is such text), then "]"
MatchesAt(t, i) ==
    /\ t[i] = "["
    /\ LET k == FirstClose(t, i + 1) IN k > i + 1

\* placeholderRegex.test(t)
PlaceholderRegexTest(t) == \E i \in 1..Len(t) : MatchesAt(t, i)

WordLimit == 700

\* mutant of RequiredSections: "Skills" left out of the array
RequiredSectionsNoSkills ==
    << <<"Contact", " ", "Information">>, <<"Work", " ", "Experience">> >>

\* the array requiredSections
RequiredSections ==
    << <<"Contact", " ", "Information">>, <<"Work", " ", "Experience">>, <<"Skills">> >>

PlaceholderMsg == <<"Placeholder detected in adapted CV">>

WordLimitMsg(wordCount) == <<"CV exceeds 700-word limit (", ToString(wordCount), " words)">>

MissingPrefix == "Missing required sections: "

MissingMsg(missingSections) ==
    <<MissingPrefix>> \o Join(missingSections, <<", ">>)

\* reading .adaptedCv of a null output
AdaptTypeErrorMsg == <<"Cannot read properties of null (reading 'adaptedCv')">>

\* mutant of Validate: the word count checked before the placeholders
ValidateWordCountFirst(adaptedCv) ==
    LET wordCount == SplitLength(adaptedCv)
    IN  IF wordCount > WordLimit THEN Rejected(WordLimitMsg(wordCount))
        ELSE IF PlaceholderRegexTest(adaptedCv) THEN Rejected(PlaceholderMsg)
        ELSE LET missingSections ==
                     SelectSeq(RequiredSections,
                               LAMBDA section : ~Includes(adaptedCv, section))
             IN  IF Len(missingSections) > 0
                 THEN Rejected(MissingMsg(missingSections))
                 ELSE Resolved(adaptedCv)

\* the three checks of the flow on the model's text, in the order of the code
Validate(adaptedCv) ==
    IF PlaceholderRegexTest(adaptedCv) THEN Rejected(PlaceholderMsg)
    ELSE LET wordCount == SplitLength(adaptedCv)
         IN  IF wordCount > WordLimit THEN Rejected(WordLimitMsg(wordCount))
             ELSE LET missingSections ==
                          SelectSeq(RequiredSections,
                                    LAMBDA section : ~Includes(adaptedCv, section))
                  IN  IF Len(missingSections) > 0
                      THEN Rejected(MissingMsg(missingSections))
                      ELSE Resolved(adaptedCv)

\* how the promise of adaptCv settles when the prompt call ends as `out`
AdaptCvFlowResult(out) ==
    IF out.kind = "reject" THEN Rejected(out.text)
    ELSE IF out.kind = "null" THEN Rejected(AdaptTypeErrorMsg)
    ELSE Validate(out.text)

-----------------------------------------------------------------------------
(* Cover letter flow: src/ai/flows/cover-letter-generation.ts, lines 111-143 *)

PortfolioUrl == "https://abbeyscript.netlify.app"
GitHubUrl == "https://github.com/HARBBEY21166"
LinkedInUrl == "https://www.linkedin.com/in/abbey0/"

\* the array `links`; each link is label, ": ", URL
links ==
    << <<"Portfolio", ": ", PortfolioUrl>>,
       <<"GitHub", ": ", GitHubUrl>>,
       <<"LinkedIn", ": ", LinkedInUrl>> >>

\* The pieces a cover letter of the model is put together from: each URL,
\* other text, and a signature that carries the three URLs.
LetterPhrases ==
    { <<PortfolioUrl>>, <<GitHubUrl>>, <<LinkedInUrl>>,
      <<"Dear Hiring Manager,">>,
      <<"[", "Portfolio Link", "]">>,
      <<PortfolioUrl, "\n", GitHubUrl, "\n", LinkedInUrl>> }

\* the letters the model can return: up to MaxLetterLen phrases, concatenated
LetterTexts == {Join(ps, <<>>) : ps \in SeqsUpTo(LetterPhrases, MaxLetterLen)}

\* what the language model can do on a cover letter call
LetterOutcomes ==
    {Output(t) : t \in LetterTexts} \cup {NullOutput} \cup {ModelReject(m) : m \in ModelErrors}

\* mutant of LinkUrl: link.split(': ')[0], the label
LinkLabel(link) == Split(link, ": ")[1]

\* link.split(': ')[1]; JavaScript counts from 0
LinkUrl(link) == Split(link, ": ")[2]

\* mutant of LinksToAdd: no filter, every link is added
LinksToAddAll(coverLetter) == links

\* mutant of LinksToAdd: the negation lost, the links already present are added
LinksToAddPresent(coverLetter) ==
    SelectSeq(links, LAMBDA link : Includes(coverLetter, Split(link, ": ")[2]))

\* links.filter(link => !coverLetter.includes(link.split(': ')[1]))
LinksToAdd(coverLetter) ==
    SelectSeq(links, LAMBDA link : ~Includes(coverLetter, LinkUrl(link)))

\* the post-processing of the model's letter
AppendLinks(coverLetter) ==
    LET linksToAdd == LinksToAdd(coverLetter)
    IN  IF Len(linksToAdd) > 0
        THEN coverLetter \o <<"\n", "\n">> \o Join(linksToAdd, <<"\n">>)
        ELSE coverLetter

\* reading .coverLetter of a null output
LetterTypeErrorMsg == <<"Cannot read properties of null (reading 'coverLetter')">>

\* how the promise of generateCoverLetter settles when the prompt call ends as `out`
GenerateCoverLetterFlowResult(out) ==
    IF out.kind = "reject" THEN Rejected(out.text)
    ELSE IF out.kind = "null" THEN Rejected(LetterTypeErrorMsg)
    ELSE Resolved(AppendLinks(out.text))

-----------------------------------------------------------------------------
(* The form and the page: src/app/page.tsx *)

MinChars == 50
MaxChars == 10000

\* a field's text is modelled by its length, all that formSchema looks at
FormLengths == {MinChars - 1, MinChars, MaxChars, MaxChars + 1}

CvTooShort == "CV must be at least 50 characters long."
CvTooLong == "CV must be at most 10000 characters long."
JdTooShort == "Job description must be at least 50 characters long."
JdTooLong == "Job description must be at most 10000 characters long."

\* mutant of FormSchemaErrors: no .max() on jobDescription
FormSchemaErrorsNoMax(originalCv, jobDescription) ==
    (IF originalCv < MinChars THEN {CvTooShort} ELSE {})
    \cup (IF originalCv > MaxChars THEN {CvTooLong} ELSE {})
    \cup (IF jobDescription < MinChars THEN {JdTooShort} ELSE {})

\* formSchema applied by zodResolver: the set of field messages
FormSchemaErrors(originalCv, jobDescription) ==
    (IF originalCv < MinChars THEN {CvTooShort} ELSE {})
    \cup (IF originalCv > MaxChars THEN {CvTooLong} ELSE {})
    \cup (IF jobDescription < MinChars THEN {JdTooShort} ELSE {})
    \cup (IF jobDescription > MaxChars THEN {JdTooLong} ELSE {})

AdaptFailedMsg == <<"AI failed to adapt CV. Please try again.">>
LetterFailedMsg == <<"AI failed to generate cover letter. Please try again.">>
FallbackMsg == <<"An unexpected error occurred. Please check your inputs or try again later.">>

SuccessToast ==
    [title |-> "Success!", description |-> <<"CV and Cover Letter generated successfully.">>]
ErrorToast(errorMessage) == [title |-> "Error", description |-> errorMessage]
ClearedToast ==
    [title |-> "Inputs Cleared",
     description |-> <<"The form and generated content have been cleared.">>]

\* mutant of ErrorMessage: e.message is ignored
ErrorMessageGeneric(message) == FallbackMsg

\* mutant of ErrorMessage: no fallback for an empty e.message
ErrorMessageNoFallback(message) == message

\* e.message || "An unexpected error occurred. ..."
ErrorMessage(message) == IF message = <<>> THEN FallbackMsg ELSE message

Init ==
    /\ isLoading = FALSE
    /\ error = <<>>
    /\ adaptedCvText = <<>>
    /\ coverLetterText = <<>>
    /\ fieldErrors = {}
    /\ toasts = <<>>
    /\ pc = "idle"
    /\ data = <<>>
    /\ adaptReq = <<>>
    /\ adaptOutput = <<>>
    /\ adaptResp = <<>>
    /\ letterReq = <<>>
    /\ letterOutput = <<>>
    /\ letterResp = <<>>
    /\ calls = <<>>

\* mutant of HandleSubmit: setCoverLetterText("") left out
HandleSubmitNoClear(originalCv, jobDescription) ==
    /\ ~isLoading
    /\ LET errors == FormSchemaErrors(originalCv, jobDescription)
       IN  IF errors # {}
           THEN /\ fieldErrors' = errors
                /\ UNCHANGED <<ui, toasts, pc, data, adaptReq, adaptOutput, adaptResp,
                               letterReq, letterOutput, letterResp, calls>>
           ELSE /\ fieldErrors' = {}
                /\ isLoading' = TRUE
                /\ error' = <<>>
                /\ adaptedCvText' = <<>>
                /\ UNCHANGED coverLetterText
                /\ toasts' = <<>>
                /\ pc' = "adapting"
                /\ data' = <<[originalCv |-> originalCv, jobDescription |-> jobDescription]>>
                /\ adaptReq' = <<[cv |-> originalCv, jobDescription |-> jobDescription]>>
                /\ calls' = <<"adaptCv">>
                /\ adaptOutput' = <<>>
                /\ letterOutput' = <<>>
                /\ UNCHANGED <<adaptResp, letterReq, letterResp>>

\* the submit button (disabled while loading) runs form.handleSubmit(handleGenerate):
\* the resolver validates the fields; handleGenerate runs, up to its first await,
\* only when they are valid
HandleSubmit(originalCv, jobDescription) ==
    /\ ~isLoading
    /\ LET errors == FormSchemaErrors(originalCv, jobDescription)
       IN  IF errors # {}
           THEN /\ fieldErrors' = errors
                /\ UNCHANGED <<ui, toasts, pc, data, adaptReq, adaptOutput, adaptResp,
                               letterReq, letterOutput, letterResp, calls>>
           ELSE /\ fieldErrors' = {}
                /\ isLoading' = TRUE
                /\ error' = <<>>
                /\ adaptedCvText' = <<>>
                /\ coverLetterText' = <<>>
                /\ toasts' = <<>>
                /\ pc' = "adapting"
                /\ data' = <<[originalCv |-> originalCv, jobDescription |-> jobDescription]>>
                /\ adaptReq' = <<[cv |-> originalCv, jobDescription |-> jobDescription]>>
                /\ calls' = <<"adaptCv">>
                /\ adaptOutput' = <<>>
                /\ letterOutput' = <<>>
                /\ UNCHANGED <<adaptResp, letterReq, letterResp>>

\* the server runs adaptCvFlow on the request; the prompt call ends as `out`
AdaptCvFlow ==
    /\ adaptReq # <<>>
    /\ adaptReq' = <<>>
    /\ \E out \in AdaptOutcomes :
           /\ adaptOutput' = <<out>>
           /\ adaptResp' = <<AdaptCvFlowResult(out)>>
    /\ UNCHANGED <<ui, fieldErrors, toasts, pc, data, letterReq, letterOutput,
                   letterResp, calls>>

\* mutant of CatchFinally: setError left out of the catch block
CatchFinallyNoError(message) ==
    /\ error' = error
    /\ toasts' = Append(toasts, ErrorToast(ErrorMessage(message)))
    /\ isLoading' = FALSE
    /\ pc' = "idle"
    /\ data' = <<>>

\* mutant of CatchFinally: no finally block, isLoading is left as it is
CatchFinallyNoFinally(message) ==
    /\ error' = <<ErrorMessage(message)>>
    /\ toasts' = Append(toasts, ErrorToast(ErrorMessage(message)))
    /\ UNCHANGED isLoading
    /\ pc' = "idle"
    /\ data' = <<>>

\* catch (e) and finally of handleGenerate, e.message being `message`
CatchFinally(message) ==
    /\ error' = <<ErrorMessage(message)>>
    /\ toasts' = Append(toasts, ErrorToast(ErrorMessage(message)))
    /\ isLoading' = FALSE
    /\ pc' = "idle"
    /\ data' = <<>>

\* mutant of SetAdaptedCvText: the state is not set
SetAdaptedCvTextSkipped(adaptedCv) == UNCHANGED adaptedCvText

\* setAdaptedCvText(adaptedCvResponse.adaptedCv)
SetAdaptedCvText(adaptedCv) == adaptedCvText' = adaptedCv

\* mutant of CoverLetterPayload: the CV field of the form sent as job description
CoverLetterPayloadWrongField(adaptedCv, formData) ==
    [adaptedCv |-> adaptedCv, jobDescription |-> formData.originalCv]

\* generateCoverLetterPayload
CoverLetterPayload(adaptedCv, formData) ==
    [adaptedCv |-> adaptedCv, jobDescription |-> formData.jobDescription]

\* mutant of AfterAdaptCv: a rejected adaptCv is called once more
AfterAdaptCvRetry ==
    /\ pc = "adapting"
    /\ adaptResp # <<>>
    /\ adaptResp' = <<>>
    /\ LET adaptedCvResponse == adaptResp[1]
       IN  IF ~adaptedCvResponse.ok /\ Len(calls) < 2
           THEN /\ adaptReq' = <<[cv |-> data[1].originalCv,
                                  jobDescription |-> data[1].jobDescription]>>
                /\ calls' = Append(calls, "adaptCv")
                /\ UNCHANGED <<adaptedCvText, letterReq, error, toasts, isLoading, pc, data>>
           ELSE IF ~adaptedCvResponse.ok
           THEN /\ CatchFinally(adaptedCvResponse.value)
                /\ UNCHANGED <<adaptedCvText, letterReq, calls, adaptReq>>
           ELSE IF adaptedCvResponse.value = <<>>
           THEN /\ CatchFinally(AdaptFailedMsg)
                /\ UNCHANGED <<adaptedCvText, letterReq, calls, adaptReq>>
           ELSE /\ SetAdaptedCvText(adaptedCvResponse.value)
                /\ letterReq' = <<CoverLetterPayload(adaptedCvResponse.value, data[1])>>
                /\ calls' = Append(calls, "generateCoverLetter")
                /\ pc' = "generating"
                /\ UNCHANGED <<error, toasts, isLoading, data, adaptReq>>
    /\ UNCHANGED <<coverLetterText, fieldErrors, adaptOutput, letterOutput, letterResp>>

\* handleGenerate resumes after `await adaptCv(...)`; an Error thrown by the
\* flow reaches the catch block with the message it was thrown with
AfterAdaptCv ==
    /\ pc = "adapting"
    /\ adaptResp # <<>>
    /\ adaptResp' = <<>>
    /\ LET adaptedCvResponse == adaptResp[1]
       IN  IF ~adaptedCvResponse.ok
           THEN /\ CatchFinally(adaptedCvResponse.value)
                /\ UNCHANGED <<adaptedCvText, letterReq, calls>>
           ELSE IF adaptedCvResponse.value = <<>>
           THEN /\ CatchFinally(AdaptFailedMsg)
                /\ UNCHANGED <<adaptedCvText, letterReq, calls>>
           ELSE /\ SetAdaptedCvText(adaptedCvResponse.value)
                /\ letterReq' = <<CoverLetterPayload(adaptedCvResponse.value, data[1])>>
                /\ calls' = Append(calls, "generateCoverLetter")
                /\ pc' = "generating"
                /\ UNCHANGED <<error, toasts, isLoading, data>>
    /\ UNCHANGED <<coverLetterText, fieldErrors, adaptReq, adaptOutput, letterOutput,
                   letterResp>>

\* the server runs generateCoverLetterFlow on the request
GenerateCoverLetterFlow ==
    /\ letterReq # <<>>
    /\ letterReq' = <<>>
    /\ \E out \in LetterOutcomes :
           /\ letterOutput' = <<out>>
           /\ letterResp' = <<GenerateCoverLetterFlowResult(out)>>
    /\ UNCHANGED <<ui, fieldErrors, toasts, pc, data, adaptReq, adaptOutput,
                   adaptResp, calls>>

\* handleGenerate resumes after `await generateCoverLetter(...)`
AfterGenerateCoverLetter ==
    /\ pc = "generating"
    /\ letterResp # <<>>
    /\ letterResp' = <<>>
    /\ LET coverLetterResponse == letterResp[1]
       IN  IF ~coverLetterResponse.ok
           THEN /\ CatchFinally(coverLetterResponse.value)
                /\ UNCHANGED coverLetterText
           ELSE IF coverLetterResponse.value = <<>>
           THEN /\ CatchFinally(LetterFailedMsg)
                /\ UNCHANGED coverLetterText
           ELSE /\ coverLetterText' = coverLetterResponse.value
                /\ toasts' = Append(toasts, SuccessToast)
                /\ isLoading' = FALSE
                /\ pc' = "idle"
                /\ data' = <<>>
                /\ UNCHANGED error
    /\ UNCHANGED <<adaptedCvText, fieldErrors, adaptReq, adaptOutput, adaptResp,
                   letterReq, letterOutput, calls>>

\* mutant of HandleClearInputs: setCoverLetterText("") and setAdaptedCvText("")
\* exchanged for a clear of the adapted CV alone
HandleClearInputsKeepLetter ==
    /\ ~isLoading
    /\ fieldErrors' = {}
    /\ adaptedCvText' = <<>>
    /\ UNCHANGED coverLetterText
    /\ error' = <<>>
    /\ toasts' = <<ClearedToast>>
    /\ adaptOutput' = <<>>
    /\ UNCHANGED letterOutput
    /\ calls' = <<>>
    /\ UNCHANGED <<isLoading, pc, data, adaptReq, adaptResp, letterReq, letterResp>>

\* mutant of HandleClearInputs: the button is not disabled while loading
HandleClearInputsWhileLoading ==
    /\ fieldErrors' = {}
    /\ adaptedCvText' = <<>>
    /\ coverLetterText' = <<>>
    /\ error' = <<>>
    /\ toasts' = <<ClearedToast>>
    /\ adaptOutput' = <<>>
    /\ letterOutput' = <<>>
    /\ calls' = <<>>
    /\ UNCHANGED <<isLoading, pc, data, adaptReq, adaptResp, letterReq, letterResp>>

\* the Clear Inputs button (disabled while loading)
HandleClearInputs ==
    /\ ~isLoading
    /\ fieldErrors' = {}
    /\ adaptedCvText' = <<>>
    /\ coverLetterText' = <<>>
    /\ error' = <<>>
    /\ toasts' = <<ClearedToast>>
    /\ adaptOutput' = <<>>
    /\ letterOutput' = <<>>
    /\ calls' = <<>>
    /\ UNCHANGED <<isLoading, pc, data, adaptReq, adaptResp, letterReq, letterResp>>

\* the render shows the "Adapted CV" card
ShowsAdaptedCv ==
    /\ (adaptedCvText # <<>> \/ coverLetterText # <<>>) /\ ~isLoading
    /\ adaptedCvText # <<>>

\* the render shows the "Generation Error" alert
ShowsError == error # <<>> /\ ~isLoading

Next ==
    \/ \E originalCv \in FormLengths, jobDescription \in FormLengths :
           HandleSubmit(originalCv, jobDescription)
    \/ AdaptCvFlow
    \/ AfterAdaptCv
    \/ GenerateCoverLetterFlow
    \/ AfterGenerateCoverLetter
    \/ HandleClearInputs

Spec == Init /\ [][Next]_vars

\* every model call on the server ends, and a settled promise resumes the
\* handler that awaits it
FairSpec ==
    /\ Spec
    /\ WF_vars(AdaptCvFlow) /\ WF_vars(AfterAdaptCv)
    /\ WF_vars(GenerateCoverLetterFlow) /\ WF_vars(AfterGenerateCoverLetter)

-----------------------------------------------------------------------------
(* Notions the properties are stated in, defined apart from the code's own *)
(* computations                                                            *)

\* t contains "[", then one or more characters other than "]", then "]"
Bracketed(t) ==
    \E i, j \in 1..Len(t) :
        /\ j > i + 1
        /\ t[i] = "[" /\ t[j] = "]"
        /\ \A k \in (i + 1)..(j - 1) : t[k] # "]"

\* number of whitespace-delimited words of t: the maximal runs of non-whitespace
WordCount(t) ==
    Cardinality({i \in 1..Len(t) : t[i] # " " /\ (i = 1 \/ t[i - 1] = " ")})
    + Cardinality({i \in 1..Len(t) : t[i] = "Bulk"}) * (BulkWords - 1)

\* number of pieces whitespace cuts t into, the empty pieces before leading
\* and after trailing whitespace included
Pieces(t) ==
    Cardinality({i \in 1..Len(t) : t[i] = " " /\ (i = 1 \/ t[i - 1] # " ")})
    + Cardinality({i \in 1..Len(t) : t[i] = "Bulk"}) * (BulkWords - 1) + 1

\* number of occurrences of the one-token text u in t
Occurrences(t, u) == Cardinality({i \in 1..Len(t) : t[i] = u})

CanonicalUrls == {PortfolioUrl, GitHubUrl, LinkedInUrl}

\* the adaptation flow has run on a text of the model and its promise is settled
AdaptSettled ==
    /\ adaptOutput # <<>> /\ adaptOutput[1].kind = "output"
    /\ adaptResp # <<>>

\* the cover letter flow has run on a text of the model and its promise is settled
LetterSettled ==
    /\ letterOutput # <<>> /\ letterOutput[1].kind = "output"
    /\ letterResp # <<>>

-----------------------------------------------------------------------------
(* Properties *)

C1_Invalid(cv, jd) == cv < 50 \/ cv > 10000 \/ jd < 50 \/ jd > 10000

\* C1: a submission whose originalCv or jobDescription is shorter than 50 or
\* longer than 10,000 characters is rejected before any network call:
\* handleGenerate is not entered, no server function is called and isLoading,
\* adaptedCvText, coverLetterText and error are left as they were; the fields
\* get their messages instead.
C1_InvalidSubmissionRejected ==
    [][\A cv, jd \in FormLengths :
           (C1_Invalid(cv, jd) /\ HandleSubmit(cv, jd))
           => /\ UNCHANGED <<isLoading, adaptedCvText, coverLetterText, error>>
              /\ UNCHANGED <<pc, data, calls, adaptReq, adaptResp, letterReq, letterResp>>
              /\ fieldErrors' # {}]_vars

\* a submission was rejected after a finished run whose results are still shown
C1_Witness ==
    fieldErrors # {} /\ ~isLoading /\ coverLetterText # <<>> /\ calls # <<>>

\* C2: whenever the model's adaptedCv contains a bracketed placeholder, adaptCv
\* rejects with 'Placeholder detected in adapted CV', whatever else the text
\* contains.
C2_PlaceholderRejected ==
    (AdaptSettled /\ Bracketed(adaptOutput[1].text))
    => adaptResp[1] = Rejected(<<"Placeholder detected in adapted CV">>)

\* a text with a placeholder that is also over the word limit and lacks every
\* required section was rejected for its placeholder
C2_Witness ==
    /\ AdaptSettled
    /\ Bracketed(adaptOutput[1].text)
    /\ WordCount(adaptOutput[1].text) > 700
    /\ ~Includes(adaptOutput[1].text, <<"Skills">>)
    /\ adaptResp[1] = Rejected(<<"Placeholder detected in adapted CV">>)

\* adaptCv rejected with 'CV exceeds 700-word limit (n words)'
C3_WordLimitExceeded ==
    /\ ~adaptResp[1].ok
    /\ Len(adaptResp[1].value) = 3
    /\ adaptResp[1].value[1] = "CV exceeds 700-word limit ("

\* C3 as stated: whenever the model's adaptedCv has more than 700 words, adaptCv
\* rejects with WordLimitExceeded, regardless of the other rules it violates.
C3_Original ==
    (AdaptSettled /\ WordCount(adaptOutput[1].text) > 700) => C3_WordLimitExceeded

\* C3 amended: whenever the model's adaptedCv has more than 700 words and
\* contains no bracketed placeholder, adaptCv rejects with WordLimitExceeded,
\* the message carrying the number of pieces the text splits into.
C3_WordLimitRejected ==
    (AdaptSettled /\ WordCount(adaptOutput[1].text) > 700
        /\ ~Bracketed(adaptOutput[1].text))
    => /\ C3_WordLimitExceeded
       /\ adaptResp[1].value[2] = ToString(Pieces(adaptOutput[1].text))

\* a text of 701 words without placeholder, lacking a required section, was
\* rejected for its length
C3_Witness ==
    /\ AdaptSettled
    /\ WordCount(adaptOutput[1].text) = 701
    /\ ~Bracketed(adaptOutput[1].text)
    /\ ~Includes(adaptOutput[1].text, <<"Skills">>)
    /\ C3_WordLimitExceeded

\* the required sections t lacks, in the order of the array
C4_Lacking(t) ==
    (IF Includes(t, <<"Contact", " ", "Information">>) THEN <<>>
     ELSE << <<"Contact", " ", "Information">> >>)
    \o (IF Includes(t, <<"Work", " ", "Experience">>) THEN <<>>
        ELSE << <<"Work", " ", "Experience">> >>)
    \o (IF Includes(t, <<"Skills">>) THEN <<>> ELSE << <<"Skills">> >>)

\* adaptCv rejected with 'Missing required sections: ...'
C4_MissingRequiredSection ==
    /\ ~adaptResp[1].ok
    /\ Len(adaptResp[1].value) > 1
    /\ adaptResp[1].value[1] = "Missing required sections: "

\* C4 as stated: whenever the model's adaptedCv lacks one of "Contact
\* Information", "Work Experience", "Skills", adaptCv rejects with
\* MissingRequiredSection, regardless of the other rules it violates.
C4_Original ==
    (AdaptSettled /\ C4_Lacking(adaptOutput[1].text) # <<>>)
    => C4_MissingRequiredSection

\* C4 amended: whenever the model's adaptedCv lacks one of the three headers,
\* contains no bracketed placeholder and splits into at most 700 pieces,
\* adaptCv rejects with 'Missing required sections: ' followed by the lacking
\* headers, in the order Contact Information, Work Experience, Skills, joined
\* by ", ".
C4_MissingSectionRejected ==
    (AdaptSettled /\ C4_Lacking(adaptOutput[1].text) # <<>>
        /\ ~Bracketed(adaptOutput[1].text)
        /\ Pieces(adaptOutput[1].text) <= 700)
    => /\ C4_MissingRequiredSection
       /\ adaptResp[1].value =
              <<"Missing required sections: ">>
              \o Join(C4_Lacking(adaptOutput[1].text), <<", ">>)

\* a text without placeholder that has two headers and lacks "Skills" was
\* rejected for the missing section
C4_Witness ==
    /\ AdaptSettled
    /\ C4_Lacking(adaptOutput[1].text) = << <<"Skills">> >>
    /\ ~Bracketed(adaptOutput[1].text)
    /\ C4_MissingRequiredSection

\* the letter the code is to return for the model's letter t: t itself when it
\* contains the three URLs, else t, a blank line, and the entries of the URLs it
\* lacks, Portfolio before GitHub before LinkedIn, one per line
C5_Reference(t) ==
    LET entries ==
            (IF PortfolioUrl \in Range(t) THEN <<>>
             ELSE << <<"Portfolio", ": ", PortfolioUrl>> >>)
            \o (IF GitHubUrl \in Range(t) THEN <<>>
                ELSE << <<"GitHub", ": ", GitHubUrl>> >>)
            \o (IF LinkedInUrl \in Range(t) THEN <<>>
                ELSE << <<"LinkedIn", ": ", LinkedInUrl>> >>)
    IN  IF entries = <<>> THEN t
        ELSE t \o <<"\n", "\n">> \o entries[1]
               \o (IF Len(entries) >= 2 THEN <<"\n">> \o entries[2] ELSE <<>>)
               \o (IF Len(entries) >= 3 THEN <<"\n">> \o entries[3] ELSE <<>>)

\* C5: generateCoverLetter resolves with the model's letter followed, when
\* canonical URLs are absent from it, by "\n\n" and the "<Label>: <URL>" entries
\* of the absent ones in canonical order joined by "\n"; with the letter
\* unchanged when none is absent.
C5_LetterIsReference ==
    LetterSettled => letterResp[1] = Resolved(C5_Reference(letterOutput[1].text))

\* a letter that lacks exactly the GitHub and LinkedIn URLs got the two entries
C5_Witness ==
    /\ LetterSettled
    /\ PortfolioUrl \in Range(letterOutput[1].text)
    /\ letterResp[1].value =
           letterOutput[1].text
           \o <<"\n", "\n", "GitHub", ": ", GitHubUrl, "\n", "LinkedIn", ": ", LinkedInUrl>>

\* C6 as stated: for every output of the model, the returned letter contains
\* each of the three canonical URLs exactly once.
C6_Original ==
    LetterSettled
    => \A u \in CanonicalUrls : Occurrences(letterResp[1].value, u) = 1

\* C6 amended: the returned letter contains each canonical URL at least once:
\* exactly once when the model's letter contains it at most once, and as often
\* as the model's letter does when that contains it more than once.
C6_LinksPresent ==
    LetterSettled
    => \A u \in CanonicalUrls :
          Occurrences(letterResp[1].value, u) =
              IF Occurrences(letterOutput[1].text, u) = 0 THEN 1
              ELSE Occurrences(letterOutput[1].text, u)

\* a letter of the model without any URL was returned with each URL once
C6_Witness ==
    /\ LetterSettled
    /\ letterOutput[1].text # <<>>
    /\ \A u \in CanonicalUrls : Occurrences(letterOutput[1].text, u) = 0
    /\ \A u \in CanonicalUrls : Occurrences(letterResp[1].value, u) = 1

\* C7: the append step is idempotent: run again on the letter it returned it
\* changes nothing, and a URL the model's letter already contains occurs in the
\* returned letter as often as before.
C7_AppendIdempotent ==
    LetterSettled
    => /\ AppendLinks(letterResp[1].value) = letterResp[1].value
       /\ \A u \in CanonicalUrls :
             Includes(letterOutput[1].text, <<u>>)
             => Occurrences(letterResp[1].value, u)
                    = Occurrences(letterOutput[1].text, u)

\* the step appended entries to a letter that already had the portfolio URL
C7_Witness ==
    /\ LetterSettled
    /\ Includes(letterOutput[1].text, <<PortfolioUrl>>)
    /\ letterResp[1].value # letterOutput[1].text

\* C8: in a run whose adaptation output contains a bracketed placeholder,
\* generateCoverLetter is never called, and the run ends with error
\* 'Placeholder detected in adapted CV', adaptedCvText and coverLetterText empty
\* and isLoading false.
C8_PlaceholderAbortsRun ==
    (adaptOutput # <<>> /\ adaptOutput[1].kind = "output"
        /\ Bracketed(adaptOutput[1].text))
    => /\ calls = <<"adaptCv">>
       /\ letterReq = <<>> /\ letterResp = <<>> /\ letterOutput = <<>>
       /\ pc # "generating"
       /\ adaptedCvText = <<>> /\ coverLetterText = <<>>
       /\ pc = "idle"
          => /\ error = << <<"Placeholder detected in adapted CV">> >>
             /\ ~isLoading
             /\ toasts = <<ErrorToast(<<"Placeholder detected in adapted CV">>)>>

\* a run whose adaptation output was "[Your Website]" and more has ended
C8_Witness ==
    /\ pc = "idle"
    /\ adaptOutput # <<>> /\ adaptOutput[1].kind = "output"
    /\ Includes(adaptOutput[1].text, <<"[", "Your", " ", "Website", "]">>)
    /\ Len(adaptOutput[1].text) > 5
    /\ error # <<>>

\* a run has ended in which stage 1 succeeded and stage 2 failed
C9_LetterStageFailed ==
    /\ pc = "idle"
    /\ calls = <<"adaptCv", "generateCoverLetter">>
    /\ error # <<>>

\* C9 as stated: when stage 2 fails after stage 1 succeeded, adaptedCvText is
\* empty in the resulting Error state and no adapted CV is shown.
C9_Original ==
    C9_LetterStageFailed => (adaptedCvText = <<>> /\ ~ShowsAdaptedCv)

\* C9 amended: when stage 2 fails after stage 1 succeeded, the stage-1 result
\* is kept: in the resulting Error state adaptedCvText is the adapted CV that
\* adaptCv returned, the adapted CV is shown together with the error, and
\* coverLetterText is empty.
C9_AdaptedCvKept ==
    C9_LetterStageFailed
    => /\ adaptedCvText = adaptOutput[1].text
       /\ adaptedCvText # <<>>
       /\ ShowsAdaptedCv /\ ShowsError
       /\ coverLetterText = <<>>

\* stage 2 was rejected by the provider after stage 1 returned an adapted CV
C9_Witness ==
    /\ C9_LetterStageFailed
    /\ letterOutput # <<>> /\ letterOutput[1].kind = "reject"
    /\ adaptedCvText # <<>>

\* C10: when the model call of the letter stage rejects, the run ends with error
\* set to the rejection's message, or to the fallback message when the rejection
\* carries none; coverLetterText stays empty and no success toast is emitted.
C10_LetterModelError ==
    (letterOutput # <<>> /\ letterOutput[1].kind = "reject")
    => /\ coverLetterText = <<>>
       /\ \A i \in 1..Len(toasts) : toasts[i].title # "Success!"
       /\ pc = "idle"
          => /\ ~isLoading
             /\ error =
                    <<IF letterOutput[1].text = <<>>
                      THEN <<"An unexpected error occurred. Please check your inputs or try again later.">>
                      ELSE letterOutput[1].text>>

\* a run has ended whose letter call was rejected without a message
C10_Witness ==
    /\ pc = "idle"
    /\ letterOutput # <<>> /\ letterOutput[1].kind = "reject"
    /\ letterOutput[1].text = <<>>
    /\ error # <<>>

\* a run has ended whose letter call was rejected with a message
C10_WitnessMessage ==
    /\ pc = "idle"
    /\ letterOutput # <<>> /\ letterOutput[1].kind = "reject"
    /\ error = <<letterOutput[1].text>>

\* C11: generateCoverLetter is called only after adaptCv resolved with a
\* non-empty adaptedCv, with exactly that adaptedCv and the submitted
\* jobDescription; when adaptCv rejects, the run ends in Error and
\* generateCoverLetter is never called.
C11_LetterAfterAdaptation ==
    /\ letterReq # <<>>
       => /\ pc = "generating"
          /\ adaptOutput # <<>> /\ adaptOutput[1].kind = "output"
          /\ adaptOutput[1].text # <<>>
          /\ ~Bracketed(adaptOutput[1].text)
          /\ letterReq[1].adaptedCv = adaptOutput[1].text
          /\ letterReq[1].jobDescription = data[1].jobDescription
          /\ adaptedCvText = adaptOutput[1].text
    /\ "generateCoverLetter" \in Range(calls)
       => /\ calls = <<"adaptCv", "generateCoverLetter">>
          /\ adaptOutput # <<>> /\ adaptOutput[1].kind = "output"
          /\ adaptOutput[1].text # <<>>
          /\ adaptResp = <<>>
    /\ (adaptOutput # <<>> /\ adaptOutput[1].kind # "output")
       => /\ calls = <<"adaptCv">>
          /\ letterReq = <<>> /\ letterResp = <<>> /\ letterOutput = <<>>
          /\ pc = "idle" => (error # <<>> /\ ~isLoading)

\* generateCoverLetter is on its way with an adapted CV, for a form whose two
\* fields differ in length
C11_Witness ==
    /\ letterReq # <<>>
    /\ letterReq[1].adaptedCv # <<>>
    /\ data[1].originalCv # data[1].jobDescription
    /\ letterReq[1].jobDescription = data[1].jobDescription

\* C12: coverLetterText is set and the success toast emitted only when
\* generateCoverLetter resolved with a non-empty coverLetter, and then error is
\* null; when the letter stage's prompt rejects or gives no output, the run ends
\* in Error with coverLetterText empty.
C12_DoneOnlyAfterLetter ==
    /\ coverLetterText # <<>>
       => /\ letterOutput # <<>> /\ letterOutput[1].kind = "output"
          /\ Len(coverLetterText) >= Len(letterOutput[1].text)
          /\ SubSeq(coverLetterText, 1, Len(letterOutput[1].text)) = letterOutput[1].text
          /\ letterResp = <<>>
          /\ pc = "idle" /\ ~isLoading
          /\ error = <<>>
          /\ toasts = <<SuccessToast>>
    /\ (\E i \in 1..Len(toasts) : toasts[i].title = "Success!")
       => coverLetterText # <<>>
    /\ (letterOutput # <<>> /\ letterOutput[1].kind # "output" /\ pc = "idle")
       => /\ error # <<>>
          /\ coverLetterText = <<>>
          /\ ~isLoading
          /\ toasts = <<ErrorToast(error[1])>>

\* a run has reached Done
C12_Witness ==
    /\ pc = "idle"
    /\ coverLetterText # <<>>
    /\ calls = <<"adaptCv", "generateCoverLetter">>
    /\ toasts = <<SuccessToast>>

\* number of calls and responses between the page and the server
InFlight == Len(adaptReq) + Len(adaptResp) + Len(letterReq) + Len(letterResp)

\* C13: nothing is retried: in one run adaptCv is called at most once and
\* generateCoverLetter at most once, each prompt is invoked at most once, and
\* once a run has ended nothing is called until the user submits again.
C13_NoRetry ==
    /\ [](/\ calls \in {<<>>, <<"adaptCv">>, <<"adaptCv", "generateCoverLetter">>}
          /\ InFlight <= 1
          /\ pc = "idle" => InFlight = 0)
    /\ [][/\ adaptOutput # <<>> => adaptOutput' \in {adaptOutput, <<>>}
          /\ letterOutput # <<>> => letterOutput' \in {letterOutput, <<>>}
          /\ (adaptReq = <<>> /\ adaptReq' # <<>>)
             => /\ pc = "idle" /\ InFlight = 0
                /\ \E cv, jd \in FormLengths : HandleSubmit(cv, jd)
          /\ (letterReq = <<>> /\ letterReq' # <<>>)
             => (adaptResp # <<>> /\ adaptResp[1].ok /\ calls = <<"adaptCv">>)]_vars

\* a run has ended because the adaptation failed its validation
C13_Witness ==
    /\ pc = "idle"
    /\ calls = <<"adaptCv">>
    /\ adaptOutput # <<>> /\ adaptOutput[1].kind = "output"
    /\ error # <<>> /\ error[1][1] = "Missing required sections: "
    /\ InFlight = 0

\* C14 as the specification states it: a run that reaches Done displays a
\* cover letter with no bracketed placeholder text, whatever the model returned.
\* generateCoverLetterFlow never inspects the letter for brackets, so this fails.
C14_Original ==
    (pc = "idle" /\ coverLetterText # <<>>) => ~Bracketed(coverLetterText)

\* C15: an accepted submission starts by clearing the derived state: until
\* adaptCv has answered, adaptedCvText and coverLetterText are empty, error is
\* null and isLoading is true; and whatever output or error is held later was
\* produced by the submission under way or last made, never by an earlier one.
C15_SubmissionClearsState ==
    /\ pc = "adapting"
       => /\ adaptedCvText = <<>> /\ coverLetterText = <<>>
          /\ error = <<>> /\ isLoading
          /\ calls = <<"adaptCv">> /\ letterOutput = <<>>
    /\ adaptReq # <<>> => (pc = "adapting" /\ adaptOutput = <<>>)
    /\ adaptedCvText # <<>>
       => /\ adaptOutput # <<>> /\ adaptOutput[1].kind = "output"
          /\ adaptedCvText = adaptOutput[1].text
    /\ coverLetterText # <<>>
       => /\ letterOutput # <<>> /\ letterOutput[1].kind = "output"
          /\ coverLetterText = AppendLinks(letterOutput[1].text)
    /\ error # <<>>
       => /\ pc = "idle" /\ calls # <<>>
          /\ toasts = <<ErrorToast(error[1])>>
          /\ coverLetterText = <<>>
          /\ adaptedCvText = <<>> => letterOutput = <<>>

\* an accepted submission is waiting for adaptCv
C15_Witness ==
    /\ pc = "adapting" /\ adaptReq # <<>> /\ isLoading
    /\ data # <<>> /\ FormSchemaErrors(data[1].originalCv, data[1].jobDescription) = {}
    /\ adaptedCvText = <<>> /\ coverLetterText = <<>> /\ error = <<>>

\* C16: one user action at a time: isLoading is true exactly while a run is
\* under way, a run has exactly one call or response in flight, while isLoading
\* is true no step is a submission or a clear, and nothing is in flight for a
\* cleared form, so no response of an earlier run reaches a later run's state.
C16_OneActionAtATime ==
    /\ [](/\ isLoading <=> pc # "idle"
          /\ InFlight = (IF isLoading THEN 1 ELSE 0)
          /\ isLoading => (data # <<>> /\ calls # <<>>)
          /\ calls = <<>> => (InFlight = 0 /\ ~isLoading)
          /\ (toasts # <<>> /\ toasts[Len(toasts)] = ClearedToast)
             => /\ InFlight = 0 /\ ~isLoading
                /\ adaptedCvText = <<>> /\ coverLetterText = <<>> /\ error = <<>>)
    /\ [][isLoading
          => /\ ~HandleClearInputsWhileLoading
             /\ fieldErrors' = fieldErrors
             /\ data' \in {data, <<>>}
             /\ calls' \in {calls, Append(calls, "generateCoverLetter")}
             /\ adaptReq' \in {adaptReq, <<>>}
             /\ isLoading' = FALSE => InFlight' = 0]_vars

\* a run is under way with its one response in flight
C16_WitnessLoading ==
    /\ isLoading /\ pc = "generating" /\ letterResp # <<>> /\ InFlight = 1

\* the spec's Done and Error states of the page
Done == ~isLoading /\ error = <<>> /\ adaptedCvText # <<>> /\ coverLetterText # <<>>
Error == ~isLoading /\ error # <<>>

\* C17: if every model call eventually resolves or rejects, an accepted
\* submission eventually leaves the loading state, in Done or in Error, and
\* whenever isLoading is false (after a failure in particular) a valid
\* submission can be made.
C17_RunEnds ==
    /\ isLoading ~> (Done \/ Error)
    /\ [](~isLoading => ENABLED HandleSubmit(MinChars, MinChars))

\* a run has ended in Error after the letter stage failed
C17_Witness ==
    /\ Error /\ calls = <<"adaptCv", "generateCoverLetter">>
    /\ ENABLED HandleSubmit(MinChars, MinChars)

\* C18 as the specification states it: a text without bracketed placeholder of
\* at most 700 whitespace-delimited words, leading or trailing whitespace
\* included, is not rejected with WordLimitExceeded. split(/\s+/) also counts
\* the empty piece before leading and after trailing whitespace, so this fails.
C18_Original ==
    (AdaptSettled /\ ~Bracketed(adaptOutput[1].text)
        /\ WordCount(adaptOutput[1].text) <= WordLimit)
    => ~C3_WordLimitExceeded

\* C19: in every reachable state a non-empty coverLetterText comes with a
\* non-empty adaptedCvText and a null error: a letter is never held without the
\* adapted CV it was generated from, nor next to an error.
C19_LetterImpliesAdaptedCv ==
    coverLetterText # <<>> => (adaptedCvText # <<>> /\ error = <<>>)

\* a finished run holds both texts and no error
C19_Witness ==
    /\ coverLetterText # <<>> /\ adaptedCvText # <<>> /\ error = <<>>
    /\ letterOutput # <<>> /\ adaptOutput # <<>>
    /\ Includes(coverLetterText, <<LinkedInUrl>>)

====
